---- MODULE Spec2Model ----
(***************************************************************************)
(* Model of the Claude bridge of index.js: the messageCreate handler for   *)
(* #claude-chat and !claude-test, processWithClaude (SDK first, CLI        *)
(* fallback), processWithClaudeCLI, sendResponse, sanitizeInput and the    *)
(* cooldown sweep; and of the tracked-server list: the !track and !untrack *)
(* commands and the listeners that write a server snapshot.                *)
(*                                                                         *)
(* Text is a sequence of one-character strings.  A JavaScript null or      *)
(* undefined value is the one-element sequence NULL, whose element is not  *)
(* a character.  Time is Date.now() in milliseconds since process start.   *)
(***************************************************************************)
EXTENDS Integers, Sequences, FiniteSets, TLC

VARIABLES
    now,              \* Date.now()
    userCooldowns,    \* Map userId -> expireTime            (index.js:38)
    activeProcesses,  \* Set of processId                    (index.js:42)
    claudeQuery,      \* SDK handle: "null" or "query"       (index.js:7)
    sdkInit,          \* initializeClaudeSDK: "pending"/"done"
    h,                \* one messageCreate handler run per delivered message
    emitted,          \* the outbound messages sent by the last step
    lastAccepted,     \* history: userId -> time of the user's last accepted request
    srPc,             \* a stand-alone run of sendResponse: its position,
    srResponse,       \*   its argument,
    srSent,           \*   and the messages it has sent so far
    sanPc,            \* a stand-alone run of lines 560-563: its position,
    sanInput,         \*   the message content,
    sanOutput,        \*   and the sanitized text
    trackedFile,      \* server_data/tracked_servers.json    (index.js:35)
    snapshots,        \* guilds with a *_server_info.json file in server_data
    written,          \* the snapshot files written by the last step
    tr,               \* one handler run per tracking command or guild event
    lastEffective     \* history: guild -> the last command that wrote the list

vars == <<now, userCooldowns, activeProcesses, claudeQuery, sdkInit, h, emitted,
          lastAccepted, srPc, srResponse, srSent, sanPc, sanInput, sanOutput,
          trackedFile, snapshots, written, tr, lastEffective>>

dispatchVars == <<now, userCooldowns, activeProcesses, claudeQuery, sdkInit, h,
                  emitted, lastAccepted>>
srVars == <<srPc, srResponse, srSent>>
sanVars == <<sanPc, sanInput, sanOutput>>
trackVars == <<trackedFile, snapshots, written, tr, lastEffective>>
chatVars == <<now, userCooldowns, activeProcesses, claudeQuery, sdkInit, h, lastAccepted>>

-----------------------------------------------------------------------------
(* Program constants *)

COOLDOWN_MS == 3000
MAX_CONCURRENT_PROCESSES == 3
MAX_LENGTH == 2000
MAX_INPUT_LENGTH == 4000
SDK_TIMEOUT_MS == 15000
CLI_TIMEOUT_MS == 15000
DISCORD_MESSAGE_LIMIT == 2000

(* Bounds of the model *)

MaxMsgs == 2          \* messages delivered to the bot in one behaviour
MaxGateMsgs == 4      \* the same, where the gate is driven to its limit
MaxNow == 3000        \* free passage of time stops here (timers still fire)
MaxRand == 3          \* Math.random() yields one of 0..MaxRand
MaxSdkEvents == 1     \* non-result events of one SDK stream
MaxChunks == 2        \* reply lengths go up to about MaxChunks * MAX_LENGTH
MaxDelta == 6         \* ... within MaxDelta of each multiple of MAX_LENGTH
MaxCooldownMsgs == 2  \* messages delivered when the cooldown is examined
MaxSweepMsgs == 1     \* messages delivered when the sweep is examined
MaxLen == 3           \* the sanitizer is given every text of up to MaxLen characters
MaxTrackMsgs == 3     \* tracking commands and guild events of one behaviour

-----------------------------------------------------------------------------
(* Text *)

NULL == <<"<null>">>
IsNull(v) == v = NULL

\* JavaScript truthiness of a string-or-null value
Falsy(v) == IsNull(v) \/ v = <<>>

Min(a, b) == IF a < b THEN a ELSE b
Max(a, b) == IF a > b THEN a ELSE b

\* String.prototype.substring(start, end): 0-based, end exclusive, clamped
Substring(s, start, end) ==
    LET a == Max(0, Min(start, Len(s)))
        b == Max(0, Min(end, Len(s)))
    IN  SubSeq(s, Min(a, b) + 1, Max(a, b))

Whitespace == {" ", "\t", "\n"}

RECURSIVE TrimStart(_)
TrimStart(s) ==
    IF s # <<>> /\ Head(s) \in Whitespace THEN TrimStart(Tail(s)) ELSE s

RECURSIVE TrimEnd(_)
TrimEnd(s) ==
    IF s # <<>> /\ s[Len(s)] \in Whitespace
    THEN TrimEnd(SubSeq(s, 1, Len(s) - 1)) ELSE s

\* String.prototype.trim()
Trim(s) == TrimEnd(TrimStart(s))

Digit(d) == CASE d = 0 -> "0" [] d = 1 -> "1" [] d = 2 -> "2" [] d = 3 -> "3"
              [] d = 4 -> "4" [] d = 5 -> "5" [] d = 6 -> "6" [] d = 7 -> "7"
              [] d = 8 -> "8" [] d = 9 -> "9"

\* the decimal digits of a natural number, as a template literal prints it
RECURSIVE Decimal(_)
Decimal(n) == IF n < 10 THEN <<Digit(n)>> ELSE Decimal(n \div 10) \o <<Digit(n % 10)>>

NoResponseReceived ==
    <<"N","o"," ","r","e","s","p","o","n","s","e"," ","r","e","c","e","i","v","e","d">>

-----------------------------------------------------------------------------
(* sendResponse (index.js:718-742) *)

\* a loop that stops before a last, shorter chunk
RECURSIVE SplitLoopWhole(_, _, _)
SplitLoopWhole(responseText, i, chunks) ==
    IF i + MAX_LENGTH <= Len(responseText)
    THEN SplitLoopWhole(responseText, i + MAX_LENGTH,
                        Append(chunks, Substring(responseText, i, i + MAX_LENGTH)))
    ELSE chunks

\* the loop of lines 728-731
RECURSIVE SplitLoop(_, _, _)
SplitLoop(responseText, i, chunks) ==
    IF i < Len(responseText)
    THEN SplitLoop(responseText, i + MAX_LENGTH,
                   Append(chunks, Substring(responseText, i, i + MAX_LENGTH)))
    ELSE chunks

\* a marker that numbers the chunks from 0
ChunkPrefixFromZero(i, total) ==
    IF i = 0 THEN <<>>
    ELSE <<"(">> \o Decimal(i) \o <<"/">> \o Decimal(total) \o <<")", " ">>

\* line 734, i counted from 0
ChunkPrefix(i, total) ==
    IF i = 0 THEN <<>>
    ELSE <<"(">> \o Decimal(i + 1) \o <<"/">> \o Decimal(total) \o <<")", " ">>

\* line 722
ResponseText(response) == IF Falsy(response) THEN NoResponseReceived ELSE response

\* The messages sendResponse sends, in order; each is sent after the previous
\* send completed.  via = "reply" is message.reply, "send" is message.channel.send.
SendResponseMessages(response) ==
    LET responseText == ResponseText(response)
        chunks == SplitLoop(responseText, 0, <<>>)
    IN  IF Len(responseText) <= MAX_LENGTH
        THEN << [via |-> "reply", text |-> responseText] >>
        ELSE [k \in 1..Len(chunks) |->
                 [via  |-> IF k = 1 THEN "reply" ELSE "send",
                  text |-> ChunkPrefix(k - 1, Len(chunks)) \o chunks[k]]]

-----------------------------------------------------------------------------
(* sanitizeInput (index.js:544-550) *)

\* the grave accent cannot be written in a TLA+ string
BACKTICK == "backtick"
Dangerous == {"$", BACKTICK, "\\"}

\* a replace that removes the dollar sign only
RemoveDollarOnly(s) == SelectSeq(s, LAMBDA c : c # "$")

\* input.replace(...), line 549: every character of Dangerous is removed
RemoveDangerous(s) == SelectSeq(s, LAMBDA c : c \notin Dangerous)

\* a sanitizer that does not cut its result
sanitizeUncut(input) ==
    IF Falsy(input) THEN <<>> ELSE Trim(RemoveDangerous(input))

sanitizeInput(input) ==
    IF Falsy(input) THEN <<>>
    ELSE Substring(Trim(RemoveDangerous(input)), 0, MAX_INPUT_LENGTH)

-----------------------------------------------------------------------------
(* Error messages, as sequences of words; String.prototype.includes is     *)
(* containment of a run of words.                                          *)

Includes(msg, needle) ==
    \E k \in 0..(Len(msg) - Len(needle)) : SubSeq(msg, k + 1, k + Len(needle)) = needle

BusyError == <<"System", "busy", ".", "Too", "many", "requests", "in", "progress", ".",
               "Please", "try", "again", "in", "a", "moment", ".">>
InvalidError == <<"Invalid", "or", "empty", "message">>
CliTimeoutError == <<"Claude", "CLI", "process", "timed", "out", "after", "15", "seconds",
                     ".", "Try", "using", "the", "SDK", "instead", ".">>
CliProcessError(errMessage) == <<"Claude", "CLI", "process", "error", ":">> \o errMessage
CliFailedError(code, stderr) ==
    <<"Claude", "CLI", "process", "failed", "(", "code">> \o Decimal(code)
        \o <<")", ":">> \o stderr

\* the if-chain of lines 791-812
Classify(errMessage) ==
    IF Includes(errMessage, <<"timed", "out">>) THEN "timeout"
    ELSE IF Includes(errMessage, <<"ENOENT">>)
            \/ Includes(errMessage, <<"command", "not", "found">>) THEN "notfound"
    ELSE IF Includes(errMessage, <<"Claude", "process", "error">>) THEN "processerror"
    ELSE "generic"

\* errorMsg of lines 791-812: only the last two branches quote the error
ErrorMsg(errMessage) ==
    CASE Classify(errMessage) = "timeout" ->
           <<"Claude", "is", "taking", "longer", "than", "expected", ".">>
      [] Classify(errMessage) = "notfound" ->
           <<"Claude", "Code", "CLI", "is", "not", "installed", "or", "not", "in", "PATH", ".">>
      [] Classify(errMessage) = "processerror" ->
           <<"Claude", "Code", "CLI", "process", "error", ".", "Error", ":">> \o errMessage
      [] OTHER ->
           <<"Sorry", ",", "I", "encountered", "an", "error", "processing", "your",
             "message", ".", "Error", ":">> \o errMessage

\* the texts of lines 835 and 837
TestSuccessful == <<"Claude integration test successful! Response: ">>
TestFailed == <<"Claude integration test failed: ">>

-----------------------------------------------------------------------------
(* The close handler of processWithClaudeCLI on exit code 0 (lines 674-699). *)
(* stdout is its raw text together with what JSON.parse makes of it.         *)

NoContentText ==
    <<"C","l","a","u","d","e"," ","p","r","o","c","e","s","s","e","d"," ","y","o","u","r",
      " ","m","e","s","s","a","g","e"," ","b","u","t"," ","r","e","t","u","r","n","e","d",
      " ","n","o"," ","c","o","n","t","e","n","t",".">>
CliErrorText == <<"E","r","r","o","r">>

\* an extraction that looks at `response` before `result`
CliReplyResponseFirst(stdout) ==
    IF ~stdout.json
    THEN (IF stdout.raw = <<>> THEN NoResponseReceived ELSE stdout.raw)
    ELSE IF ~Falsy(stdout.response) THEN stdout.response
    ELSE IF ~Falsy(stdout.result) THEN stdout.result
    ELSE IF stdout.type = "result" /\ ~stdout.is_error THEN NoContentText
    ELSE IF stdout.is_error THEN CliErrorText
    ELSE stdout.raw

\* a close handler that resolves with whatever the child printed
CliReplyRaw(stdout) ==
    IF ~stdout.json
    THEN stdout.raw
    ELSE IF ~Falsy(stdout.result) THEN stdout.result
    ELSE IF ~Falsy(stdout.response) THEN stdout.response
    ELSE IF stdout.type = "result" /\ ~stdout.is_error THEN NoContentText
    ELSE IF stdout.is_error THEN CliErrorText
    ELSE stdout.raw

CliReply(stdout) ==
    IF ~stdout.json
    THEN (IF stdout.raw = <<>> THEN NoResponseReceived ELSE stdout.raw)
    ELSE IF ~Falsy(stdout.result) THEN stdout.result
    ELSE IF ~Falsy(stdout.response) THEN stdout.response
    ELSE IF stdout.type = "result" /\ ~stdout.is_error THEN NoContentText
    ELSE IF stdout.is_error THEN CliErrorText
    ELSE stdout.raw

-----------------------------------------------------------------------------
(* Inputs *)

Users == {"u1", "u2"}

Hi == <<"h", "i">>
Dollar == <<" ", "$">>
TooLong == [k \in 1..(MAX_INPUT_LENGTH + 1) |-> "a"]
ClaudeTestCmd == <<"!","c","l","a","u","d","e","-","t","e","s","t">>
TestPrompt ==
    <<"H","e","l","l","o"," ","C","l","a","u","d","e",","," ","t","h","i","s"," ","i","s",
      " ","a"," ","t","e","s","t"," ","f","r","o","m"," ","D","i","s","c","o","r","d"," ",
      "b","o","t">>

ChatMsg(u, c) ==
    [bot |-> FALSE, channel |-> "claude-chat", user |-> u, content |-> c, attachments |-> 0]

Messages ==
    {ChatMsg(u, Hi) : u \in Users}
    \cup {ChatMsg("u1", c) : c \in {<<>>, Dollar, TooLong, ClaudeTestCmd}}
    \cup {[ChatMsg("u1", Hi) EXCEPT !.attachments = 1],
          [ChatMsg("u1", Hi) EXCEPT !.bot = TRUE],
          [ChatMsg("u1", ClaudeTestCmd) EXCEPT !.channel = "general"],
          [ChatMsg("u2", Hi) EXCEPT !.channel = "general"]}

\* what the SDK stream can carry
LongReply == [p \in 1..(MAX_LENGTH + 1) |-> "x"]
SdkResults == {NULL, <<>>, <<" ">>, <<"o", "k">>, LongReply}
SdkContents == {NULL, <<"m">>}
NoResponseFromSdk ==
    <<"N","o"," ","r","e","s","p","o","n","s","e"," ","r","e","c","e","i","v","e","d"," ",
      "f","r","o","m"," ","C","l","a","u","d","e"," ","S","D","K">>

\* what the child process can print, and how it can fail
CliStdouts ==
    {[json |-> TRUE, result |-> <<"r">>, response |-> NULL, type |-> "result",
      is_error |-> FALSE, raw |-> <<"{", "}">>],
     [json |-> TRUE, result |-> NULL, response |-> NULL, type |-> "result",
      is_error |-> FALSE, raw |-> <<"{", "}">>],
     [json |-> FALSE, result |-> NULL, response |-> NULL, type |-> "none",
      is_error |-> FALSE, raw |-> <<"t">>],
     [json |-> TRUE, result |-> <<"r">>, response |-> <<"p">>, type |-> "none",
      is_error |-> FALSE, raw |-> <<"{", "}">>],
     [json |-> TRUE, result |-> NULL, response |-> <<"p">>, type |-> "none",
      is_error |-> FALSE, raw |-> <<"{", "}">>],
     [json |-> TRUE, result |-> NULL, response |-> NULL, type |-> "result",
      is_error |-> TRUE, raw |-> <<"{", "}">>],
     [json |-> TRUE, result |-> NULL, response |-> NULL, type |-> "none",
      is_error |-> FALSE, raw |-> <<"{", "}">>],
     [json |-> TRUE, result |-> NULL, response |-> NULL, type |-> "none",
      is_error |-> TRUE, raw |-> <<"{", "}">>],
     [json |-> FALSE, result |-> NULL, response |-> NULL, type |-> "none",
      is_error |-> FALSE, raw |-> <<>>]}
ExitCodes == {0, 1}
Stderrs == {<<>>, <<"request", "timed", "out">>}
SpawnErrors == {<<"spawn", "claude", "ENOENT">>, <<"spawn", "claude", "EACCES">>}
SendErrors == {<<"Missing", "Permissions">>}

-----------------------------------------------------------------------------
(* Handler runs *)

Reqs == DOMAIN h
NoPid == <<-1, 0>>
NoTimer == -1
NoMsg == [bot |-> FALSE, channel |-> "none", user |-> "none", content |-> <<>>,
          attachments |-> 0]

\* pc: "new" (message not delivered yet), "typing" (awaiting sendTyping), "sdk"
\* (awaiting the SDK stream), "cli" (awaiting the CLI promise), "sending"
\* (awaiting an outbound send), "done" (the handler's promise settled).
\* child: "none" (no live child process), "running", "signalled" (sent SIGTERM,
\* not closed yet).  fellBack is history: the CLI was called after an SDK attempt.
Idle == [pc |-> "new", msg |-> NoMsg, kind |-> "none", sanitized |-> <<>>,
         processId |-> NoPid, messages |-> <<>>, child |-> "none", timer |-> NoTimer,
         queue |-> <<>>, stage |-> "none", fellBack |-> FALSE]

Out(via, cat, text) == [via |-> via, cat |-> cat, text |-> text]

\* what is left of a run once processWithClaude has returned or thrown
Cleared(rec) == [Idle EXCEPT !.kind = rec.kind, !.child = rec.child]

\* what is left of a run whose handler has returned or thrown
Settled(rec) == [Idle EXCEPT !.pc = "done", !.child = rec.child]

InFlight(r) == h[r].pc \in {"sdk", "cli"}

\* a gate that refuses only above the limit
GateOverfull == Cardinality(activeProcesses) > MAX_CONCURRENT_PROCESSES

\* line 555
GateFull == Cardinality(activeProcesses) >= MAX_CONCURRENT_PROCESSES

\* line 568: Date.now() + Math.random()
MintProcessId(rnd) == <<now, rnd>>

\* Only equality of tokens matters: Math.random() either repeats the value of a
\* token minted in this millisecond by a run still in flight, or yields a value
\* not in use, which is represented by the least one.
Randoms ==
    LET used == {h[q].processId[2] : q \in {x \in Reqs : InFlight(x) /\ h[x].processId[1] = now}}
        free == (0..MaxRand) \ used
    IN  used \cup {x \in free : \A y \in free : x <= y}

\* lines 833-834
Preview(testResponse) ==
    LET responseText == IF Falsy(testResponse) THEN NoResponseReceived ELSE testResponse
    IN  IF Len(responseText) > 200
        THEN Substring(responseText, 0, 200) \o <<".", ".", ".">>
        ELSE responseText

\* a handler without catch blocks: the error leaves the handler
FailUncaught(r, rec, errMessage, pre) ==
    /\ h' = [h EXCEPT ![r] = Settled(rec)]
    /\ emitted' = pre \o << Out("log", "unhandledRejection", <<>>) >>

\* The catch blocks: lines 786-815 (#claude-chat) and 836-838 (!claude-test).
Fail(r, rec, errMessage, pre) ==
    /\ h' = [h EXCEPT ![r] = [Cleared(rec) EXCEPT
                !.pc = "sending",
                !.stage = IF rec.kind = "chat" THEN "diag" ELSE "testfail"]]
    /\ emitted' = pre \o
         << IF rec.kind = "chat"
            THEN Out("reply", Classify(errMessage), ErrorMsg(errMessage))
            ELSE Out("send", "testfail", TestFailed \o errMessage) >>

\* processWithClaude returned: lines 784 (sendResponse) and 833-835.
Succeed(r, rec, response) ==
    IF rec.kind = "chat"
    THEN LET msgs == SendResponseMessages(response)
         IN  /\ h' = [h EXCEPT ![r] = [Cleared(rec) EXCEPT
                        !.pc = "sending", !.stage = "resp", !.queue = Tail(msgs)]]
             /\ emitted' = << Out(msgs[1].via, "response", msgs[1].text) >>
    ELSE /\ h' = [h EXCEPT ![r] = [Cleared(rec) EXCEPT
                    !.pc = "sending", !.stage = "testok"]]
         /\ emitted' = << Out("send", "testok", TestSuccessful \o Preview(response)) >>

\* a finally block that leaves the token in the set
ReleaseNothing(pid) == activeProcesses' = activeProcesses

\* the finally block, line 628
Release(pid) == activeProcesses' = activeProcesses \ {pid}

\* processWithClaudeCLI is called (line 622) with the token `rec.processId` held
\* in `active`: spawn either starts the child and arms the timer, or throws.
SpawnCli(r, rec, pre, active) ==
    \/ /\ h' = [h EXCEPT ![r] = [rec EXCEPT !.pc = "cli", !.messages = <<>>,
                                            !.child = "running",
                                            !.timer = now + CLI_TIMEOUT_MS]]
       /\ activeProcesses' = active
       /\ emitted' = pre
    \/ /\ activeProcesses' = active \ {rec.processId}
       /\ Fail(r, rec, <<"spawn", "ENOMEM">>, pre)

\* a processWithClaude that does not look at what the sanitizer returned
BeginUnchecked(r, rec, messageContent, rnd, pre) ==
    IF GateFull
    THEN Fail(r, rec, BusyError, pre) /\ UNCHANGED activeProcesses
    ELSE LET processId == MintProcessId(rnd)
             run == [rec EXCEPT !.msg = NoMsg, !.sanitized = sanitizeInput(messageContent),
                                !.processId = processId]
         IN  IF claudeQuery = "query"
             THEN /\ h' = [h EXCEPT ![r] = [run EXCEPT !.pc = "sdk"]]
                  /\ activeProcesses' = activeProcesses \cup {processId}
                  /\ emitted' = pre
             ELSE SpawnCli(r, run, pre, activeProcesses \cup {processId})

\* processWithClaude up to its first suspension (lines 553-622)
Begin(r, rec, messageContent, rnd, pre) ==
    IF GateFull
    THEN Fail(r, rec, BusyError, pre) /\ UNCHANGED activeProcesses
    ELSE LET sanitized == sanitizeInput(messageContent)
         IN  IF Falsy(sanitized)
             THEN Fail(r, rec, InvalidError, pre) /\ UNCHANGED activeProcesses
             ELSE LET processId == MintProcessId(rnd)
                      run == [rec EXCEPT !.msg = NoMsg, !.sanitized = sanitized,
                                         !.processId = processId]
                  IN  IF claudeQuery = "query"
                      THEN /\ h' = [h EXCEPT ![r] = [run EXCEPT !.pc = "sdk"]]
                           /\ activeProcesses' = activeProcesses \cup {processId}
                           /\ emitted' = pre
                      ELSE SpawnCli(r, run, pre, activeProcesses \cup {processId})

-----------------------------------------------------------------------------
(* Actions of the dispatcher *)

ValidationNotice == <<"Message", "must", "be", "between", "1-4000", "characters", ".">>
AttachmentNotice == <<"File", "attachments", "are", "not", "supported", "in", "Claude",
                      "chat", ".">>
TestingNotice == <<"Testing", "Claude", "Code", "CLI", "integration", "...">>

\* the remaining seconds rounded down
TimeLeftFloor(cooldownEnd) == (cooldownEnd - now) \div 1000

\* Math.ceil((cooldownEnd - now) / 1000), line 766
TimeLeft(cooldownEnd) == (cooldownEnd - now + 999) \div 1000

\* a cooldown that still holds at the instant it expires
OnCooldownInclusive(userId) ==
    userId \in DOMAIN userCooldowns /\ now <= userCooldowns[userId]

\* a cooldown that is taken for expired during its last second
OnCooldownLax(userId) ==
    userId \in DOMAIN userCooldowns /\ now + 1000 < userCooldowns[userId]

\* line 765: the user is still cooling down
OnCooldown(userId) == userId \in DOMAIN userCooldowns /\ now < userCooldowns[userId]

\* lines 768-774: the entry after an accepted request
SetCooldown(userId) ==
    [u \in DOMAIN userCooldowns \cup {userId} |->
        IF u = userId THEN now + COOLDOWN_MS ELSE userCooldowns[u]]

\* a reply that is not followed by `return`: the handler goes on
NoticeWithoutReturn(r, message, cat, text) ==
    /\ h' = [h EXCEPT ![r] = [Idle EXCEPT !.pc = "typing", !.kind = "chat",
                                          !.stage = "notice", !.msg = message]]
    /\ emitted' = << Out("reply", cat, text) >>

\* `return message.reply(notice)`: the run ends when the send completes
Notice(r, message, cat, text) ==
    /\ h' = [h EXCEPT ![r] = [Idle EXCEPT !.pc = "sending", !.kind = "chat",
                                          !.stage = "notice", !.msg = message]]
    /\ emitted' = << Out("reply", cat, text) >>

\* a handler without the check of line 745
IsBotNever(message) == FALSE

\* line 745
IsBot(message) == message.bot

\* The gateway delivers `message` and the messageCreate handler runs up to its
\* first suspension (lines 744-839).  Runs are numbered in the order of delivery.
Handle(r, message, rnd) ==
    /\ h[r].pc = "new"
    /\ IF r = 1 THEN TRUE ELSE h[r - 1].pc # "new"
    /\ LET userId == message.user
       IN  IF IsBot(message)
           THEN /\ h' = [h EXCEPT ![r] = [Settled(Idle) EXCEPT !.kind = "bot"]]
                /\ emitted' = <<>>
                /\ UNCHANGED <<userCooldowns, activeProcesses, lastAccepted>>
           ELSE IF message.channel = "claude-chat"
           THEN IF Falsy(message.content) \/ Len(message.content) > MAX_INPUT_LENGTH
                THEN /\ Notice(r, message, "validation", ValidationNotice)
                     /\ UNCHANGED <<userCooldowns, activeProcesses, lastAccepted>>
                ELSE IF message.attachments > 0
                THEN /\ Notice(r, message, "attachments", AttachmentNotice)
                     /\ UNCHANGED <<userCooldowns, activeProcesses, lastAccepted>>
                ELSE IF OnCooldown(userId)
                THEN /\ Notice(r, message, "cooldown",
                             Decimal(TimeLeft(userCooldowns[userId])))
                     /\ UNCHANGED <<userCooldowns, activeProcesses, lastAccepted>>
                ELSE /\ userCooldowns' = SetCooldown(userId)
                     /\ lastAccepted' = [u \in DOMAIN lastAccepted \cup {userId} |->
                                           IF u = userId THEN now ELSE lastAccepted[u]]
                     /\ h' = [h EXCEPT ![r] = [Idle EXCEPT
                                !.pc = "typing", !.kind = "chat", !.msg = message]]
                     /\ emitted' = <<>>
                     /\ UNCHANGED activeProcesses
           ELSE IF message.content = ClaudeTestCmd
           THEN /\ Begin(r, [Idle EXCEPT !.kind = "test"], TestPrompt, rnd,
                         << Out("reply", "testing", TestingNotice) >>)
                /\ UNCHANGED <<userCooldowns, lastAccepted>>
           ELSE /\ h' = [h EXCEPT ![r] = Settled(Idle)]
                /\ emitted' = <<>>
                /\ UNCHANGED <<userCooldowns, activeProcesses, lastAccepted>>
    /\ UNCHANGED <<now, claudeQuery, sdkInit>>
    /\ UNCHANGED <<srVars, sanVars, trackVars>>

\* sendTyping resolved (line 777): processWithClaude(message.content) starts
TypingDone(r, rnd) ==
    /\ h[r].pc = "typing"
    /\ Begin(r, h[r], h[r].msg.content, rnd, <<>>)
    /\ UNCHANGED <<now, userCooldowns, claudeQuery, sdkInit, lastAccepted>>
    /\ UNCHANGED <<srVars, sanVars, trackVars>>

\* the handler's promise rejects and nothing catches it: the process-wide
\* unhandledRejection handler logs it (lines 967-969)
UnhandledRejection == Out("log", "unhandledRejection", <<>>)

\* sendTyping rejected
TypingFail(r) ==
    /\ h[r].pc = "typing"
    /\ h' = [h EXCEPT ![r] = Settled(h[r])]
    /\ emitted' = << UnhandledRejection >>
    /\ UNCHANGED <<now, userCooldowns, activeProcesses, claudeQuery, sdkInit, lastAccepted>>
    /\ UNCHANGED <<srVars, sanVars, trackVars>>

\* the stream yields an event whose type is not "result" (line 607)
SdkMessage(r, content) ==
    /\ h[r].pc = "sdk"
    /\ Len(h[r].messages) < MaxSdkEvents
    /\ h' = [h EXCEPT ![r].messages = Append(@, content)]
    /\ emitted' = <<>>
    /\ UNCHANGED <<now, userCooldowns, activeProcesses, claudeQuery, sdkInit, lastAccepted>>
    /\ UNCHANGED <<srVars, sanVars, trackVars>>

\* a test that takes whitespace for content
EmptyResultUntrimmed(result) == Falsy(result)

\* lines 590 and 599
EmptyResult(result) == Falsy(result) \/ Trim(result) = <<>>

\* the stream yields a "result" event (lines 588-606)
SdkResult(r, result) ==
    /\ h[r].pc = "sdk"
    /\ IF EmptyResult(result)
       THEN SpawnCli(r, [h[r] EXCEPT !.fellBack = TRUE], <<>>, activeProcesses)
       ELSE Release(h[r].processId) /\ Succeed(r, h[r], result)
    /\ UNCHANGED <<now, userCooldowns, claudeQuery, sdkInit, lastAccepted>>
    /\ UNCHANGED <<srVars, sanVars, trackVars>>

\* lines 611-612
LastMessageContent(messages) ==
    IF messages = <<>> \/ Falsy(messages[Len(messages)])
    THEN NoResponseFromSdk
    ELSE messages[Len(messages)]

\* a return that keeps the token while the reply is sent
SdkEndHoldsToken(r) ==
    /\ h[r].pc = "sdk"
    /\ UNCHANGED activeProcesses
    /\ Succeed(r, h[r], LastMessageContent(h[r].messages))
    /\ UNCHANGED <<now, userCooldowns, claudeQuery, sdkInit, lastAccepted>>
    /\ UNCHANGED <<srVars, sanVars, trackVars>>

\* the stream ends without a "result" event (lines 610-612)
SdkEnd(r) ==
    /\ h[r].pc = "sdk"
    /\ Release(h[r].processId)
    /\ Succeed(r, h[r], LastMessageContent(h[r].messages))
    /\ UNCHANGED <<now, userCooldowns, claudeQuery, sdkInit, lastAccepted>>
    /\ UNCHANGED <<srVars, sanVars, trackVars>>

\* an SDK error that ends the invocation
SdkThrowFails(r) ==
    /\ h[r].pc = "sdk"
    /\ Release(h[r].processId)
    /\ Fail(r, h[r], <<"SDK", "error">>, <<>>)
    /\ UNCHANGED <<now, userCooldowns, claudeQuery, sdkInit, lastAccepted>>
    /\ UNCHANGED <<srVars, sanVars, trackVars>>

\* a fallback that gives the token back before it calls the CLI
SdkThrowReleases(r) ==
    /\ h[r].pc = "sdk"
    /\ SpawnCli(r, [h[r] EXCEPT !.fellBack = TRUE], <<>>,
                activeProcesses \ {h[r].processId})
    /\ UNCHANGED <<now, userCooldowns, claudeQuery, sdkInit, lastAccepted>>
    /\ UNCHANGED <<srVars, sanVars, trackVars>>

\* the SDK call throws (lines 614-617)
SdkThrow(r) ==
    /\ h[r].pc = "sdk"
    /\ SpawnCli(r, [h[r] EXCEPT !.fellBack = TRUE], <<>>, activeProcesses)
    /\ UNCHANGED <<now, userCooldowns, claudeQuery, sdkInit, lastAccepted>>
    /\ UNCHANGED <<srVars, sanVars, trackVars>>

\* a close handler that resolves whatever the exit code
CliCloseAnyCode(r, code, stdout, stderr) ==
    /\ h[r].pc = "cli"
    /\ h[r].child = "running"
    /\ Release(h[r].processId)
    /\ Succeed(r, [h[r] EXCEPT !.child = "none"],
               IF code = 0 THEN CliReply(stdout) ELSE stderr)
    /\ UNCHANGED <<now, userCooldowns, claudeQuery, sdkInit, lastAccepted>>
    /\ UNCHANGED <<srVars, sanVars, trackVars>>

\* the child closes while the promise is pending (lines 671-703)
CliClose(r, code, stdout, stderr) ==
    /\ h[r].pc = "cli"
    /\ h[r].child = "running"
    /\ Release(h[r].processId)
    /\ LET rec == [h[r] EXCEPT !.child = "none"]
       IN  IF code = 0
           THEN Succeed(r, rec, CliReply(stdout))
           ELSE Fail(r, rec, CliFailedError(code, stderr), <<>>)
    /\ UNCHANGED <<now, userCooldowns, claudeQuery, sdkInit, lastAccepted>>
    /\ UNCHANGED <<srVars, sanVars, trackVars>>

\* the child could not be spawned (lines 666-669)
CliError(r, errMessage) ==
    /\ h[r].pc = "cli"
    /\ h[r].child = "running"
    /\ Release(h[r].processId)
    /\ Fail(r, [h[r] EXCEPT !.child = "none"], CliProcessError(errMessage), <<>>)
    /\ UNCHANGED <<now, userCooldowns, claudeQuery, sdkInit, lastAccepted>>
    /\ UNCHANGED <<srVars, sanVars, trackVars>>

\* a timer callback after which the token stays in the set
CliTimeoutHoldsToken(r) ==
    /\ h[r].pc = "cli"
    /\ now >= h[r].timer
    /\ Fail(r, [h[r] EXCEPT !.child = "signalled"], CliTimeoutError, <<>>)
    /\ UNCHANGED <<now, userCooldowns, activeProcesses, claudeQuery, sdkInit, lastAccepted>>
    /\ UNCHANGED <<srVars, sanVars, trackVars>>

\* the 15 s timer fires (lines 706-713)
CliTimeout(r) ==
    /\ h[r].pc = "cli"
    /\ now >= h[r].timer
    /\ Release(h[r].processId)
    /\ Fail(r, [h[r] EXCEPT !.child = "signalled"], CliTimeoutError, <<>>)
    /\ UNCHANGED <<now, userCooldowns, claudeQuery, sdkInit, lastAccepted>>
    /\ UNCHANGED <<srVars, sanVars, trackVars>>

\* a child that was sent SIGTERM closes: the settled promise ignores it
LateClose(r) ==
    /\ h[r].pc # "cli"
    /\ h[r].child = "signalled"
    /\ h' = [h EXCEPT ![r].child = "none"]
    /\ emitted' = <<>>
    /\ UNCHANGED <<now, userCooldowns, activeProcesses, claudeQuery, sdkInit, lastAccepted>>
    /\ UNCHANGED <<srVars, sanVars, trackVars>>

\* a handler that tries again once its notice or diagnostic has been sent
SendDoneRetries(r) ==
    /\ h[r].pc = "sending"
    /\ IF h[r].queue # <<>>
       THEN /\ h' = [h EXCEPT ![r].queue = Tail(@)]
            /\ emitted' = << Out(Head(h[r].queue).via, "response",
                                 Head(h[r].queue).text) >>
       ELSE /\ h' = [h EXCEPT ![r] =
                       IF h[r].stage \in {"notice", "diag"}
                       THEN [h[r] EXCEPT !.pc = "typing", !.msg = ChatMsg("u1", Hi)]
                       ELSE Settled(h[r])]
            /\ emitted' = <<>>
    /\ UNCHANGED <<now, userCooldowns, activeProcesses, claudeQuery, sdkInit, lastAccepted>>
    /\ UNCHANGED <<srVars, sanVars, trackVars>>

\* an awaited send completed: the next chunk goes out, or the run returns
SendDone(r) ==
    /\ h[r].pc = "sending"
    /\ IF h[r].queue # <<>>
       THEN /\ h' = [h EXCEPT ![r].queue = Tail(@)]
            /\ emitted' = << Out(Head(h[r].queue).via, "response",
                                 Head(h[r].queue).text) >>
       ELSE /\ h' = [h EXCEPT ![r] = Settled(h[r])]
            /\ emitted' = <<>>
    /\ UNCHANGED <<now, userCooldowns, activeProcesses, claudeQuery, sdkInit, lastAccepted>>
    /\ UNCHANGED <<srVars, sanVars, trackVars>>

\* an awaited send rejected: inside a try block the catch block answers,
\* elsewhere the handler's promise rejects
SendFail(r, errMessage) ==
    /\ h[r].pc = "sending"
    /\ IF h[r].stage \in {"resp", "testok"}
       THEN Fail(r, h[r], errMessage, <<>>)
       ELSE /\ h' = [h EXCEPT ![r] = Settled(h[r])]
            /\ emitted' = << UnhandledRejection >>
    /\ UNCHANGED <<now, userCooldowns, activeProcesses, claudeQuery, sdkInit, lastAccepted>>
    /\ UNCHANGED <<srVars, sanVars, trackVars>>

\* an interval callback that deletes only entries that expired before time 0
cleanupNoCooldowns ==
    /\ userCooldowns' = [u \in {v \in DOMAIN userCooldowns : ~(0 > userCooldowns[v])}
                            |-> userCooldowns[u]]
    /\ userCooldowns' # userCooldowns
    /\ emitted' = <<>>
    /\ UNCHANGED <<now, activeProcesses, claudeQuery, sdkInit, h, lastAccepted>>
    /\ UNCHANGED <<srVars, sanVars, trackVars>>

\* a sweep that deletes every entry
cleanupAllCooldowns ==
    /\ userCooldowns' = [u \in {} |-> 0]
    /\ userCooldowns' # userCooldowns
    /\ emitted' = <<>>
    /\ UNCHANGED <<now, activeProcesses, claudeQuery, sdkInit, h, lastAccepted>>
    /\ UNCHANGED <<srVars, sanVars, trackVars>>

\* cleanupExpiredCooldowns (lines 46-53), run by the interval timer of line 56
cleanupExpiredCooldowns ==
    /\ userCooldowns' = [u \in {v \in DOMAIN userCooldowns : ~(now >= userCooldowns[v])}
                            |-> userCooldowns[u]]
    /\ userCooldowns' # userCooldowns
    /\ emitted' = <<>>
    /\ UNCHANGED <<now, activeProcesses, claudeQuery, sdkInit, h, lastAccepted>>
    /\ UNCHANGED <<srVars, sanVars, trackVars>>

\* initializeClaudeSDK (lines 10-18): the import resolves or fails
initializeClaudeSDK(loaded) ==
    /\ sdkInit = "pending"
    /\ sdkInit' = "done"
    /\ claudeQuery' = IF loaded THEN "query" ELSE "null"
    /\ emitted' = <<>>
    /\ UNCHANGED <<now, userCooldowns, activeProcesses, h, lastAccepted>>
    /\ UNCHANGED <<srVars, sanVars, trackVars>>

\* Time passes: by one of `steps` while now <= MaxNow, to the deadline of an armed
\* CLI timer, or to just after the instant at which an SDK call has lasted
\* SDK_TIMEOUT_MS.  An armed timer fires when it is due: time does not pass
\* beyond its deadline.
TickSteps == {2999, 3000}
Deadlines == {h[r].timer : r \in {q \in Reqs : h[q].pc = "cli"}}
SdkOverdue == {h[r].processId[1] + SDK_TIMEOUT_MS + 1 : r \in {q \in Reqs : h[q].pc = "sdk"}}

Tick(steps, others) ==
    /\ \E t \in {now + d : d \in steps} \cup Deadlines \cup others :
          /\ t > now
          /\ t <= MaxNow \/ t \in Deadlines \cup others
          /\ \A d \in Deadlines : t <= d
          /\ now' = t
    /\ emitted' = <<>>
    /\ UNCHANGED <<userCooldowns, activeProcesses, claudeQuery, sdkInit, h, lastAccepted>>
    /\ UNCHANGED <<srVars, sanVars, trackVars>>

-----------------------------------------------------------------------------
(* The tracked-server list (index.js:73-93), the !track and !untrack        *)
(* commands (887-942) and the listeners of guild events (169-299).  A guild *)
(* is its id; the guild's name, which only appears in texts and file names, *)
(* is left out.  Reading and writing the list file can fail: both functions *)
(* catch the error, log it and go on.                                       *)

Guilds == {"g1", "g2"}
NoGuild == "<no guild>"
NoFile == <<"<no file>">>

TrackRuns == DOMAIN tr
TrackIdle == [pc |-> "new", kind |-> "none", guild |-> NoGuild, saved |-> FALSE]

\* the listeners of lines 169-299; those of channels return when the channel
\* has no guild
ChannelEvents == {"channelCreate", "channelUpdate", "channelDelete"}
EventKinds ==
    {"guildUpdate"} \cup ChannelEvents
    \cup {"roleCreate", "roleUpdate", "roleDelete",
          "emojiCreate", "emojiUpdate", "emojiDelete",
          "stickerCreate", "stickerUpdate", "stickerDelete",
          "threadCreate", "threadUpdate", "threadDelete"}

\* messages that carry a tracking command, outside #claude-chat (a message in
\* #claude-chat never reaches the commands: line 818)
TrackMessages ==
    [bot : BOOLEAN, guild : Guilds \cup {NoGuild}, content : {"!track", "!untrack"}]

GuildOnlyText == <<"This", "command", "can", "only", "be", "used", "in", "a", "server!">>
AlreadyTrackedText == <<"This", "server", "is", "already", "being", "tracked!">>
AddingText == <<"Adding", "this", "server", "to", "tracking", "list">>
NowTrackedText == <<"is", "now", "being", "tracked!">>
NotTrackedText == <<"This", "server", "is", "not", "currently", "being", "tracked.">>
RemovedText == <<"has", "been", "removed", "from", "tracking.">>

\* Array.prototype.includes, indexOf (0 where JavaScript has -1) and splice(index, 1)
includes(list, id) == \E i \in DOMAIN list : list[i] = id
indexOf(list, id) ==
    IF includes(list, id)
    THEN CHOOSE i \in DOMAIN list : list[i] = id /\ \A j \in 1..(i - 1) : list[j] # id
    ELSE 0
splice(list, index) == SubSeq(list, 1, index - 1) \o SubSeq(list, index + 1, Len(list))

\* a loader that takes every guild for tracked
loadEveryGuild(readOk) == <<"g1", "g2">>

\* lines 74-83: the list in the file, or [] when there is no file or when
\* reading or parsing it throws
loadTrackedServers(readOk) ==
    IF trackedFile = NoFile \/ ~readOk THEN <<>> ELSE trackedFile

LoadLog(readOk) ==
    IF trackedFile # NoFile /\ ~readOk THEN << Out("log", "loaderror", <<>>) >> ELSE <<>>

\* lines 86-92: the file is rewritten, or the error is logged and the file
\* stays as it was
saveTrackedServers(trackedServers, writeOk) ==
    trackedFile' = IF writeOk THEN trackedServers ELSE trackedFile

SaveLog(writeOk) == IF writeOk THEN <<>> ELSE << Out("log", "saveerror", <<>>) >>

\* the history of the commands that wrote the list
Wrote(guild, command, writeOk) ==
    lastEffective' = IF writeOk THEN [lastEffective EXCEPT ![guild] = command]
                     ELSE lastEffective

TrackReturn(t, out) ==
    /\ tr' = [tr EXCEPT ![t] = [TrackIdle EXCEPT !.pc = "done"]]
    /\ emitted' = out
    /\ UNCHANGED <<trackedFile, snapshots, lastEffective>>

TrackArrives(t) ==
    /\ tr[t].pc = "new"
    /\ IF t = 1 THEN TRUE ELSE tr[t - 1].pc # "new"
    /\ written' = {}

\* messageCreate with content '!track' (lines 745, 887-915), up to the await
\* of saveServerInfoToFile
track(t, message, readOk, writeOk) ==
    /\ TrackArrives(t)
    /\ message.content = "!track"
    /\ IF message.bot
       THEN TrackReturn(t, <<>>)
       ELSE IF message.guild = NoGuild
       THEN TrackReturn(t, << Out("reply", "guildonly", GuildOnlyText) >>)
       ELSE LET trackedServers == loadTrackedServers(readOk)
            IN  IF includes(trackedServers, message.guild)
                THEN TrackReturn(t, LoadLog(readOk) \o
                                    << Out("reply", "already", AlreadyTrackedText) >>)
                ELSE /\ saveTrackedServers(Append(trackedServers, message.guild), writeOk)
                     /\ Wrote(message.guild, "track", writeOk)
                     /\ tr' = [tr EXCEPT ![t] = [pc |-> "snapshot", kind |-> "track",
                                                 guild |-> message.guild,
                                                 saved |-> writeOk]]
                     /\ emitted' = LoadLog(readOk) \o SaveLog(writeOk) \o
                                   << Out("reply", "adding", AddingText) >>
                     /\ UNCHANGED snapshots
    /\ UNCHANGED <<chatVars, srVars, sanVars>>

\* messageCreate with content '!untrack' (lines 745, 917-942)
untrack(t, message, readOk, writeOk) ==
    /\ TrackArrives(t)
    /\ message.content = "!untrack"
    /\ IF message.bot
       THEN TrackReturn(t, <<>>)
       ELSE IF message.guild = NoGuild
       THEN TrackReturn(t, << Out("reply", "guildonly", GuildOnlyText) >>)
       ELSE LET trackedServers == loadTrackedServers(readOk)
                index == indexOf(trackedServers, message.guild)
            IN  IF index = 0
                THEN TrackReturn(t, LoadLog(readOk) \o
                                    << Out("reply", "nottracked", NotTrackedText) >>)
                ELSE /\ saveTrackedServers(splice(trackedServers, index), writeOk)
                     /\ Wrote(message.guild, "untrack", writeOk)
                     /\ tr' = [tr EXCEPT ![t] = [TrackIdle EXCEPT !.pc = "done"]]
                     /\ emitted' = LoadLog(readOk) \o SaveLog(writeOk) \o
                                   << Out("reply", "removed", RemovedText) >>
                     /\ UNCHANGED snapshots
    /\ UNCHANGED <<chatVars, srVars, sanVars>>

\* a listener of lines 169-299 runs for an event of `guild`, up to the await
\* of saveServerInfoToFile
guildEvent(t, kind, guild, readOk) ==
    /\ TrackArrives(t)
    /\ guild = NoGuild => kind \in ChannelEvents
    /\ IF guild = NoGuild
       THEN TrackReturn(t, <<>>)
       ELSE IF includes(loadTrackedServers(readOk), guild)
       THEN /\ tr' = [tr EXCEPT ![t] = [pc |-> "snapshot", kind |-> "event",
                                        guild |-> guild, saved |-> FALSE]]
            /\ emitted' = << Out("log", kind, <<>>) >>
            /\ UNCHANGED <<trackedFile, snapshots, lastEffective>>
       ELSE TrackReturn(t, LoadLog(readOk))
    /\ UNCHANGED <<chatVars, srVars, sanVars>>

\* saveServerInfoToFile settles (lines 96-123): the snapshot file is written,
\* or gathering or writing threw and the error is logged; !track then sends its
\* confirmation (line 908)
snapshotSettles(t, infoOk, writeOk) ==
    /\ tr[t].pc = "snapshot"
    /\ IF infoOk /\ writeOk
       THEN /\ snapshots' = snapshots \cup {tr[t].guild}
            /\ written' = {tr[t].guild}
       ELSE /\ written' = {}
            /\ UNCHANGED snapshots
    /\ emitted' = (IF infoOk /\ writeOk THEN << Out("log", "saved", <<>>) >>
                   ELSE << Out("log", "snapshoterror", <<>>) >>)
                  \o (IF tr[t].kind = "track"
                      THEN << Out("send", "tracked", NowTrackedText) >>
                      ELSE <<>>)
    /\ tr' = [tr EXCEPT ![t] = [@ EXCEPT !.pc = "done"]]
    /\ UNCHANGED <<trackedFile, lastEffective>>
    /\ UNCHANGED <<chatVars, srVars, sanVars>>

-----------------------------------------------------------------------------
(* The dispatcher *)

\* the state once the module has been loaded and `n` messages are to come
InitN(n) ==
    /\ now = 0
    /\ userCooldowns = [u \in {} |-> 0]
    /\ activeProcesses = {}
    /\ claudeQuery = "null"
    /\ sdkInit = "pending"
    /\ h = [r \in 1..n |-> Idle]
    /\ emitted = <<>>
    /\ lastAccepted = [u \in {} |-> 0]

\* no stand-alone run of sendResponse
NoSendResponse ==
    /\ srPc = "idle"
    /\ srResponse = NULL
    /\ srSent = <<>>

\* no stand-alone run of the sanitizing lines
NoSanitize ==
    /\ sanPc = "idle"
    /\ sanInput = NULL
    /\ sanOutput = NULL

\* a fresh deployment: no list file, no snapshot, no command or event
NoTracking ==
    /\ trackedFile = NoFile
    /\ snapshots = {}
    /\ written = {}
    /\ tr = <<>>
    /\ lastEffective = [g \in Guilds |-> "none"]

Next ==
    \/ \E r \in Reqs, m \in Messages, rnd \in Randoms : Handle(r, m, rnd)
    \/ \E r \in Reqs, rnd \in Randoms : TypingDone(r, rnd)
    \/ \E r \in Reqs : TypingFail(r)
    \/ \E r \in Reqs, content \in SdkContents : SdkMessage(r, content)
    \/ \E r \in Reqs, result \in SdkResults : SdkResult(r, result)
    \/ \E r \in Reqs : SdkEnd(r)
    \/ \E r \in Reqs : SdkThrow(r)
    \/ \E r \in Reqs, stdout \in CliStdouts : CliClose(r, 0, stdout, <<>>)
    \/ \E r \in Reqs, code \in ExitCodes \ {0}, stderr \in Stderrs :
          CliClose(r, code, <<>>, stderr)
    \/ \E r \in Reqs, e \in SpawnErrors : CliError(r, e)
    \/ \E r \in Reqs : CliTimeout(r)
    \/ \E r \in Reqs : LateClose(r)
    \/ \E r \in Reqs : SendDone(r)
    \/ \E r \in Reqs, e \in SendErrors : SendFail(r, e)
    \/ cleanupExpiredCooldowns
    \/ \E loaded \in BOOLEAN : initializeClaudeSDK(loaded)
    \/ Tick(TickSteps, {})

Init == InitN(MaxMsgs) /\ NoSendResponse /\ NoSanitize /\ NoTracking

Spec == Init /\ [][Next]_vars

\* The same dispatcher with more runs at once, for the concurrency gate.  All of
\* it happens within one millisecond, so no timer fires; the messages are of three
\* kinds, SDK streams carry a result event or throw, sends complete.
GateMessages ==
    {ChatMsg("u1", Hi), ChatMsg("u1", <<>>),
     [ChatMsg("u2", ClaudeTestCmd) EXCEPT !.channel = "general"]}
GateStdout == [json |-> TRUE, result |-> <<"r">>, response |-> NULL, type |-> "result",
               is_error |-> FALSE, raw |-> <<"{", "}">>]

NextGate ==
    \/ \E r \in Reqs, m \in GateMessages, rnd \in Randoms : Handle(r, m, rnd)
    \/ \E r \in Reqs, rnd \in Randoms : TypingDone(r, rnd)
    \/ \E r \in Reqs, result \in {<<>>, <<"o", "k">>} : SdkResult(r, result)
    \/ \E r \in Reqs : SdkThrow(r)
    \/ \E r \in Reqs : CliClose(r, 0, GateStdout, <<>>)
    \/ \E r \in Reqs : CliClose(r, 1, <<>>, <<>>)
    \/ \E r \in Reqs : SendDone(r)
    \/ \E loaded \in BOOLEAN : initializeClaudeSDK(loaded)

InitGate == InitN(MaxGateMsgs) /\ NoSendResponse /\ NoSanitize /\ NoTracking

SpecGate == InitGate /\ [][NextGate]_vars

-----------------------------------------------------------------------------
(* The chat handler's checks (index.js:750-774) with time passing in steps   *)
(* around the whole seconds of a cooldown: chat messages of two users, some  *)
(* of them failing validation; invocations succeed and sends complete.       *)

CooldownMessages ==
    {ChatMsg(u, Hi) : u \in Users}
    \cup {ChatMsg("u1", c) : c \in {<<>>, TooLong}}
    \cup {[ChatMsg("u1", Hi) EXCEPT !.attachments = 1]}
CooldownSteps == {1000, 1999, 2999, 3000}

NextCooldown ==
    \/ \E r \in Reqs, m \in CooldownMessages, rnd \in Randoms : Handle(r, m, rnd)
    \/ \E r \in Reqs, rnd \in Randoms : TypingDone(r, rnd)
    \/ \E r \in Reqs : SdkResult(r, <<"o", "k">>)
    \/ \E r \in Reqs : CliClose(r, 0, GateStdout, <<>>)
    \/ \E r \in Reqs : SendDone(r)
    \/ cleanupExpiredCooldowns
    \/ \E loaded \in BOOLEAN : initializeClaudeSDK(loaded)
    \/ Tick(CooldownSteps, {})

InitCooldown == InitN(MaxCooldownMsgs) /\ NoSendResponse /\ NoSanitize /\ NoTracking

SpecCooldown == InitCooldown /\ [][NextCooldown]_vars

-----------------------------------------------------------------------------
(* The same handler with time passing on to the deadlines of the cooldown   *)
(* entries, for the periodic sweep.  Fairness: the interval timer of line 56 *)
(* keeps firing, so a sweep that has something to delete is run; and time    *)
(* passes.                                                                   *)

CooldownDeadlines == {userCooldowns[u] : u \in DOMAIN userCooldowns}

NextSweep ==
    \/ \E r \in Reqs, m \in CooldownMessages, rnd \in Randoms : Handle(r, m, rnd)
    \/ \E r \in Reqs, rnd \in Randoms : TypingDone(r, rnd)
    \/ \E r \in Reqs : SdkResult(r, <<"o", "k">>)
    \/ \E r \in Reqs : CliClose(r, 0, GateStdout, <<>>)
    \/ \E r \in Reqs : SendDone(r)
    \/ cleanupExpiredCooldowns
    \/ \E loaded \in BOOLEAN : initializeClaudeSDK(loaded)
    \/ Tick(CooldownSteps, CooldownDeadlines)

InitSweep == InitN(MaxSweepMsgs) /\ NoSendResponse /\ NoSanitize /\ NoTracking

SpecSweep == InitSweep /\ [][NextSweep]_vars

FairSweep ==
    /\ SpecSweep
    /\ WF_vars(cleanupExpiredCooldowns)
    /\ WF_vars(Tick({}, CooldownDeadlines))

-----------------------------------------------------------------------------
(* One handler run, with time passing also to just after the instant at    *)
(* which an SDK call has lasted SDK_TIMEOUT_MS.  Fairness: what the bot    *)
(* awaits from Discord settles, the time of an armed timer comes and the   *)
(* timer fires, a signalled child closes, and the SDK import settles.      *)
(* Nothing is assumed of the SDK stream or of a running child.             *)

NextOne ==
    \/ \E r \in Reqs, m \in Messages, rnd \in Randoms : Handle(r, m, rnd)
    \/ \E r \in Reqs, rnd \in Randoms : TypingDone(r, rnd)
    \/ \E r \in Reqs : TypingFail(r)
    \/ \E r \in Reqs, content \in SdkContents : SdkMessage(r, content)
    \/ \E r \in Reqs, result \in SdkResults : SdkResult(r, result)
    \/ \E r \in Reqs : SdkEnd(r)
    \/ \E r \in Reqs : SdkThrow(r)
    \/ \E r \in Reqs, stdout \in CliStdouts : CliClose(r, 0, stdout, <<>>)
    \/ \E r \in Reqs, code \in ExitCodes \ {0}, stderr \in Stderrs :
          CliClose(r, code, <<>>, stderr)
    \/ \E r \in Reqs, e \in SpawnErrors : CliError(r, e)
    \/ \E r \in Reqs : CliTimeout(r)
    \/ \E r \in Reqs : LateClose(r)
    \/ \E r \in Reqs : SendDone(r)
    \/ \E r \in Reqs, e \in SendErrors : SendFail(r, e)
    \/ cleanupExpiredCooldowns
    \/ \E loaded \in BOOLEAN : initializeClaudeSDK(loaded)
    \/ Tick(TickSteps, SdkOverdue)

InitOne == InitN(1) /\ NoSendResponse /\ NoSanitize /\ NoTracking

Settles(r) ==
    \/ \E rnd \in Randoms : TypingDone(r, rnd)
    \/ TypingFail(r)
    \/ CliTimeout(r)
    \/ LateClose(r)
    \/ SendDone(r)
    \/ \E e \in SendErrors : SendFail(r, e)

SpecOne == InitOne /\ [][NextOne]_vars

FairSpec ==
    /\ SpecOne
    /\ WF_vars(Settles(1))
    /\ WF_vars(\E m \in Messages, rnd \in Randoms : Handle(1, m, rnd))
    /\ WF_vars(\E loaded \in BOOLEAN : initializeClaudeSDK(loaded))
    /\ WF_vars(Tick({}, {}))

-----------------------------------------------------------------------------
(* sendResponse on its own (index.js:718-742): one call, with a reply whose *)
(* length is near a multiple of MAX_LENGTH.                                 *)

Pattern == <<"a", "b", "c", "d", "e", "f", "g">>
ReplyOfLength(n) == [p \in 1..n |-> Pattern[(p % Len(Pattern)) + 1]]
ReplyLengths ==
    {n \in {k * MAX_LENGTH + d : k \in 0..MaxChunks, d \in (0 - MaxDelta)..MaxDelta} : n >= 0}
Replies == {NULL} \cup {ReplyOfLength(n) : n \in ReplyLengths}

\* sendResponse is called and runs up to its first await (lines 718-736)
sendResponse ==
    /\ srPc = "called"
    /\ srSent' = << SendResponseMessages(srResponse)[1] >>
    /\ srPc' = "sending"
    /\ UNCHANGED <<srResponse, dispatchVars, sanVars, trackVars>>

\* the awaited send completed: the loop sends the next chunk, or the call returns
srSendDone ==
    /\ srPc = "sending"
    /\ LET msgs == SendResponseMessages(srResponse)
       IN  IF Len(srSent) < Len(msgs)
           THEN srSent' = Append(srSent, msgs[Len(srSent) + 1]) /\ UNCHANGED srPc
           ELSE srPc' = "returned" /\ UNCHANGED srSent
    /\ UNCHANGED <<srResponse, dispatchVars, sanVars, trackVars>>

\* the awaited send rejected: the call throws
srSendFail ==
    /\ srPc = "sending"
    /\ srPc' = "thrown"
    /\ UNCHANGED <<srResponse, srSent, dispatchVars, sanVars, trackVars>>

NextChunk == sendResponse \/ srSendDone \/ srSendFail

InitChunk ==
    /\ InitN(0)
    /\ srPc = "called"
    /\ srResponse \in Replies
    /\ srSent = <<>>
    /\ NoSanitize
    /\ NoTracking

SpecChunk == InitChunk /\ [][NextChunk]_vars

-----------------------------------------------------------------------------
(* The sanitizing lines of processWithClaude on their own (index.js:560-563, *)
(* calling 544-550): one call, with every short text over an alphabet of     *)
(* ordinary, blank and removed characters, and with texts whose length is    *)
(* near MAX_INPUT_LENGTH.                                                    *)

Alphabet == {"a", " "} \cup Dangerous
Texts(n) == UNION {[1..k -> Alphabet] : k \in 0..n}
Filler(n) == [p \in 1..n |-> "a"]
LongTexts ==
    {Filler(n) \o t : n \in {MAX_INPUT_LENGTH - 1, MAX_INPUT_LENGTH}, t \in Texts(MaxLen - 1)}
SanitizerInputs == {NULL} \cup Texts(MaxLen) \cup LongTexts

\* const sanitized = sanitizeInput(messageContent), line 560
sanitizeCall ==
    /\ sanPc = "called"
    /\ sanOutput' = sanitizeInput(sanInput)
    /\ sanPc' = "sanitized"
    /\ UNCHANGED <<sanInput, dispatchVars, srVars, trackVars>>

\* lines 561-563: an empty result is thrown out, any other becomes the prompt
sanitizedCheck ==
    /\ sanPc = "sanitized"
    /\ sanPc' = IF Falsy(sanOutput) \/ Len(sanOutput) = 0 THEN "rejected" ELSE "accepted"
    /\ UNCHANGED <<sanInput, sanOutput, dispatchVars, srVars, trackVars>>

NextSanitize == sanitizeCall \/ sanitizedCheck

InitSanitize ==
    /\ InitN(0)
    /\ NoSendResponse
    /\ NoTracking
    /\ sanPc = "called"
    /\ sanInput \in SanitizerInputs
    /\ sanOutput = NULL

SpecSanitize == InitSanitize /\ [][NextSanitize]_vars

-----------------------------------------------------------------------------
(* The tracked-server list on its own: tracking commands and guild events   *)
(* of two guilds, delivered in any order, with every outcome of reading and *)
(* writing the files.                                                       *)

NextTrack ==
    \/ \E t \in TrackRuns, m \in TrackMessages, readOk \in BOOLEAN, writeOk \in BOOLEAN :
          track(t, m, readOk, writeOk)
    \/ \E t \in TrackRuns, m \in TrackMessages, readOk \in BOOLEAN, writeOk \in BOOLEAN :
          untrack(t, m, readOk, writeOk)
    \/ \E t \in TrackRuns, kind \in EventKinds, guild \in Guilds \cup {NoGuild},
          readOk \in BOOLEAN :
          guildEvent(t, kind, guild, readOk)
    \/ \E t \in TrackRuns, infoOk \in BOOLEAN, writeOk \in BOOLEAN :
          snapshotSettles(t, infoOk, writeOk)

InitTrack ==
    /\ InitN(0)
    /\ NoSendResponse
    /\ NoSanitize
    /\ trackedFile = NoFile
    /\ snapshots = {}
    /\ written = {}
    /\ tr = [t \in 1..MaxTrackMsgs |-> TrackIdle]
    /\ lastEffective = [g \in Guilds |-> "none"]

SpecTrack == InitTrack /\ [][NextTrack]_vars

-----------------------------------------------------------------------------
(* Properties of the dispatcher *)

BusyEmitted == \E k \in DOMAIN emitted : Includes(emitted[k].text, BusyError)

\* a message that passes the checks of lines 752-758
ValidChat(m) ==
    /\ ~m.bot
    /\ m.channel = "claude-chat"
    /\ ~Falsy(m.content) /\ Len(m.content) <= MAX_INPUT_LENGTH
    /\ m.attachments = 0

\* this step delivers a valid chat message to run r
Arrives(r) == h[r].pc = "new" /\ h'[r].pc # "new" /\ ValidChat(h'[r].msg)

\* run r holds no token and no child, and is not with the SDK or the CLI
NotInvoked(rec) ==
    /\ rec.pc \notin {"typing", "sdk", "cli"}
    /\ rec.processId = NoPid
    /\ rec.child = "none"

\* C1: the in-flight set never holds more than MAX_CONCURRENT_PROCESSES tokens,
\* and a token is only ever added by a step that found the set below the limit
\* and adds that one token: check and insertion are one step.
GateNeverExceeded ==
    /\ [](Cardinality(activeProcesses) <= MAX_CONCURRENT_PROCESSES)
    /\ [][activeProcesses' \ activeProcesses # {} =>
            /\ Cardinality(activeProcesses) < MAX_CONCURRENT_PROCESSES
            /\ Cardinality(activeProcesses' \ activeProcesses) = 1]_vars

\* the set is full and a further request has just been refused
GateNeverExceededWitness ==
    /\ Cardinality(activeProcesses) = MAX_CONCURRENT_PROCESSES
    /\ Cardinality({r \in Reqs : InFlight(r)}) = MAX_CONCURRENT_PROCESSES
    /\ BusyEmitted

\* C4: a valid chat message that arrives while MAX_CONCURRENT_PROCESSES
\* invocations are in flight is answered with the busy notice, and no cooldown
\* entry is written or changed.
GateBeforeCooldown ==
    [][\A r \in Reqs :
          (Arrives(r) /\ GateFull) => (BusyEmitted' /\ userCooldowns' = userCooldowns)]_vars

\* C2: an invocation that settles has its token in the set before the step and
\* not after it, and a step leaves in the set the token of every invocation
\* that stays in flight.
TokenReleasedOnce ==
    [][\A r \in Reqs :
          /\ (InFlight(r) /\ h'[r].pc \notin {"sdk", "cli"}) =>
                /\ h[r].processId \in activeProcesses
                /\ h[r].processId \notin activeProcesses'
          /\ (InFlight(r) /\ h'[r].pc \in {"sdk", "cli"}
                /\ h[r].processId \in activeProcesses) =>
                h'[r].processId \in activeProcesses']_vars

\* C29: nothing is queued or retried.  An invocation starts only in the step
\* in which its own request reaches processWithClaude, and only with the gate
\* open; a request that is answered with a notice (validation, cooldown) or
\* with the busy diagnostic holds no token and only waits for that send; and a
\* run that is sending or done never goes back to typing, the SDK or the CLI.
NoQueueing ==
    [][\A r \in Reqs :
          /\ (~InFlight(r) /\ InFlight(r)')
                => /\ h[r].pc \in {"new", "typing"}
                   /\ ~GateFull
          /\ (h[r].pc \in {"new", "typing"} /\ h'[r].pc \notin {"new", "typing"}
              /\ (GateFull \/ h'[r].stage = "notice"))
                => /\ h'[r].pc = "sending"
                   /\ NotInvoked(h'[r])
                   /\ activeProcesses' = activeProcesses
          /\ h[r].pc \in {"sending", "done"}
                => /\ h'[r].pc \in {"sending", "done"}
                   /\ h'[r].processId = NoPid]_vars

\* with the gate full, a chat request is being told that the system is busy
NoQueueingWitness ==
    \E r \in Reqs :
        /\ h[r].kind = "chat" /\ h[r].pc = "sending" /\ h[r].stage = "diag"
        /\ NotInvoked(h[r])
        /\ BusyEmitted
        /\ GateFull

\* the users who send the !claude-test command outside #claude-chat
TestSenders ==
    {m.user : m \in {x \in Messages : ~x.bot /\ x.channel # "claude-chat"
                                       /\ x.content = ClaudeTestCmd}}

\* the instant at which the invocation of run r started: Date.now() of line 568
StartedAt(r) == h[r].processId[1]

\* C30: two invocations started for one user start at least COOLDOWN_MS apart.
\* Stated for the !claude-test command, which one user sends here: two test
\* invocations in flight have start times at least COOLDOWN_MS apart.
RateLimitCoversTest ==
    Cardinality(TestSenders) = 1 =>
        \A r, q \in Reqs :
            (r # q /\ InFlight(r) /\ InFlight(q) /\ h[r].kind = "test" /\ h[q].kind = "test")
            => \/ StartedAt(r) - StartedAt(q) >= COOLDOWN_MS
               \/ StartedAt(q) - StartedAt(r) >= COOLDOWN_MS

\* C28: the in-flight set holds one token for every run that is with the SDK
\* or the CLI: a token minted is never one that is already in the set.
TokensUnique ==
    Cardinality(activeProcesses) = Cardinality({r \in Reqs : InFlight(r)})

\* C5: a valid chat message of a user that arrives less than COOLDOWN_MS after
\* that user's last accepted one is denied with the wait notice and changes no
\* entry; one that arrives when the user has no entry, or at or after the
\* entry's time, or COOLDOWN_MS or more after the last accepted one, is accepted
\* and sets the entry to now + COOLDOWN_MS.
PerUserCooldown ==
    [][\A r \in Reqs : Arrives(r) =>
          LET u == h'[r].msg.user
              accepted == u \in DOMAIN lastAccepted
              last == lastAccepted[u]
              denied == /\ h'[r].pc = "sending" /\ h'[r].stage = "notice"
                        /\ Len(emitted') = 1 /\ emitted'[1].cat = "cooldown"
                        /\ userCooldowns' = userCooldowns
                        /\ lastAccepted' = lastAccepted
              allowed == /\ h'[r].pc = "typing"
                         /\ u \in DOMAIN userCooldowns'
                         /\ userCooldowns'[u] = now + COOLDOWN_MS
          IN  /\ (accepted /\ now < last + COOLDOWN_MS) => denied
              /\ (~accepted \/ now >= last + COOLDOWN_MS) => allowed
              /\ (u \notin DOMAIN userCooldowns) => allowed
              /\ (u \in DOMAIN userCooldowns /\ now >= userCooldowns[u]) => allowed]_vars

\* a user's message has just been denied one millisecond before the cooldown ends
PerUserCooldownWitness ==
    \E r \in Reqs :
        /\ h[r].pc = "sending" /\ h[r].stage = "notice"
        /\ emitted # <<>> /\ emitted[1].cat = "cooldown"
        /\ h[r].msg.user \in DOMAIN lastAccepted
        /\ now = lastAccepted[h[r].msg.user] + COOLDOWN_MS - 1

\* the categories of the if-chain of lines 791-812
FailureCategories == {"timeout", "notfound", "processerror", "generic"}

\* C23: a message that tells the user the system is busy is not one of the
\* failure diagnostics: the refusal of the gate does not go through the
\* classification of errors.
BusyIsNotAFault ==
    \A k \in DOMAIN emitted :
        Includes(emitted[k].text, BusyError) => emitted[k].cat \notin FailureCategories

\* C35: no message that goes out to Discord is empty: every reply chunk,
\* notice and diagnostic of a step has at least one character, and when the
\* CLI path succeeds, what is sent is a reply the close handler resolved with,
\* which is never empty or missing.
MessagesNonEmpty ==
    [][/\ \A i \in DOMAIN emitted' :
             emitted'[i].via # "log" => ~Falsy(emitted'[i].text)
       /\ \A r \in Reqs :
             (h[r].pc = "cli" /\ h'[r].pc = "sending" /\ h'[r].stage \in {"resp", "testok"})
             => \E stdout \in CliStdouts :
                   /\ ~Falsy(CliReply(stdout))
                   /\ emitted' = IF h[r].kind = "chat"
                                 THEN << Out("reply", "response", CliReply(stdout)) >>
                                 ELSE << Out("send", "testok",
                                             TestSuccessful \o Preview(CliReply(stdout))) >>]_vars

\* a child that printed nothing is answered with the placeholder text
MessagesNonEmptyWitness ==
    /\ emitted = << Out("reply", "response", NoResponseReceived) >>
    /\ \E r \in Reqs : h[r].pc = "sending" /\ h[r].stage = "resp"

\* C36: a message whose author is a bot has no effect: handling it changes
\* neither the cooldown map nor the in-flight set nor the record of accepted
\* messages, sends nothing, and ends the handler without an invocation.
BotMessagesIgnored ==
    [][\A r \in Reqs :
          (h[r].pc = "new" /\ h'[r].pc # "new")
          => \A message \in Messages, rnd \in Randoms :
                (message.bot /\ Handle(r, message, rnd))
                => /\ userCooldowns' = userCooldowns
                   /\ activeProcesses' = activeProcesses
                   /\ lastAccepted' = lastAccepted
                   /\ emitted' = <<>>
                   /\ h'[r].pc = "done"
                   /\ h'[r].processId = NoPid /\ h'[r].child = "none"
                   /\ \A q \in Reqs \ {r} : h'[q] = h[q]]_vars

\* a bot's message was dropped while another user's invocation was in flight
BotMessagesIgnoredWitness ==
    \E r, q \in Reqs :
        /\ h[r].pc = "done" /\ h[r].kind = "bot"
        /\ InFlight(q) /\ h[q].processId \in activeProcesses
        /\ userCooldowns # << >>
        /\ emitted = <<>>

-----------------------------------------------------------------------------
(* Properties of one invocation, under SpecOne and FairSpec *)

\* empty or whitespace-only text
Blank(text) == Falsy(text) \/ \A k \in DOMAIN text : text[k] \in Whitespace

\* C3: whenever a token is in the in-flight set, the set is empty again later.
EveryInvocationSettles == (activeProcesses # {}) ~> (activeProcesses = {})

\* C8: an SDK call is never still pending more than SDK_TIMEOUT_MS after it
\* was started (its token is minted in the step that starts it).
SdkSoftTimeout ==
    \A r \in Reqs : h[r].pc = "sdk" => now <= h[r].processId[1] + SDK_TIMEOUT_MS

\* the CLI has been called for run r: the child runs, or spawn has thrown
CliAttempted(r) ==
    \/ /\ h'[r].pc = "cli" /\ h'[r].child = "running"
       /\ h'[r].sanitized = h[r].sanitized
       /\ h'[r].processId = h[r].processId
       /\ emitted' = <<>>
    \/ /\ h'[r].pc = "sending"
       /\ emitted' # <<>>
       /\ Includes(emitted'[Len(emitted')].text, <<"spawn", "ENOMEM">>)

\* C9: when the SDK call throws or its result event is empty or whitespace-only,
\* the CLI is called in the same step with the same prompt and token and
\* nothing is sent; an invocation that starts while the SDK handle is missing
\* goes to the CLI; and nothing is sent while the CLI outcome is pending.
SdkFailover ==
    [][\A r \in Reqs :
          /\ (SdkThrow(r) \/ \E result \in SdkResults : Blank(result) /\ SdkResult(r, result))
                => CliAttempted(r)
          /\ (h[r].pc \in {"new", "typing"} /\ h'[r].pc \in {"sdk", "cli"}
                /\ claudeQuery = "null") => h'[r].pc = "cli"
          /\ (h[r].pc = "cli" /\ h'[r].pc = "cli") => emitted' = <<>>]_vars

\* the CLI is running for a request whose SDK attempt failed
SdkFailoverWitness ==
    \E r \in Reqs : h[r].pc = "cli" /\ h[r].child = "running" /\ h[r].fellBack

\* this step ends run r's SDK attempt with a reply
SdkSucceeds(r) ==
    h[r].pc = "sdk" /\ h'[r].pc = "sending" /\ h'[r].stage \in {"resp", "testok"}

\* what this step sends for run r, and leaves to send, is the reply `response`
Replied(r, response) ==
    /\ Len(emitted') = 1
    /\ IF h[r].kind = "chat"
       THEN << [via |-> emitted'[1].via, text |-> emitted'[1].text] >> \o h'[r].queue
                = SendResponseMessages(response)
       ELSE emitted'[1].text = TestSuccessful \o Preview(response)

\* C10: an SDK attempt ends with a reply only on a result event whose text is
\* not blank, and the reply is that text.
SdkSuccessOnlyFromResult ==
    [][\A r \in Reqs : SdkSucceeds(r) =>
          \E result \in SdkResults : ~Blank(result) /\ Replied(r, result)]_vars

\* C10, amended: an SDK attempt ends with a reply only on a result event whose
\* text is not blank, the reply being that text, or when the stream ends
\* without a result event, the reply being the content of the last other event
\* or, for want of one, a fixed text.
SdkSuccessFromResultOrEnd ==
    [][\A r \in Reqs : SdkSucceeds(r) =>
          \/ \E result \in SdkResults : ~Blank(result) /\ Replied(r, result)
          \/ /\ h[r].messages # <<>> /\ ~Falsy(h[r].messages[Len(h[r].messages)])
             /\ Replied(r, h[r].messages[Len(h[r].messages)])
          \/ /\ h[r].messages = <<>> \/ Falsy(h[r].messages[Len(h[r].messages)])
             /\ Replied(r, NoResponseFromSdk)]_vars

\* a stream that ended without a result event has been answered with the
\* content of its last event
SdkSuccessFromResultOrEndWitness ==
    \E r \in Reqs :
        /\ h[r].pc = "sending" /\ h[r].stage = "resp"
        /\ emitted = << Out("reply", "response", <<"m">>) >>

\* how processWithClaude ended for run r, as far as the handler shows it
Succeeded(r) == h[r].pc = "sending" /\ h[r].stage \in {"resp", "testok"}
Failed(r) == h[r].pc = "sending" /\ h[r].stage \in {"diag", "testfail"}

LiveChildren == {r \in Reqs : h[r].child \in {"running", "signalled"}}

\* C13: there are never more live child processes than tokens in the in-flight
\* set: no token is released while its child has not closed.
NoChildOutlivesToken == Cardinality(LiveChildren) <= Cardinality(activeProcesses)

\* the text is empty once the removed characters and the whitespace around
\* what is left are gone
EmptyAfterRemoval(text) == \A k \in DOMAIN text : text[k] \in Dangerous \cup Whitespace

InvalidEmitted == \E k \in DOMAIN emitted : Includes(emitted[k].text, InvalidError)

\* C15: when processWithClaude passes the gate with a text that is empty after
\* removal and trimming, the call throws before a token is minted: the
\* in-flight set is unchanged, the run holds no token and no child and goes
\* straight to sending the user a notice that quotes the invalid-message error;
\* a run that is sending never reaches the SDK or the CLI afterwards.
InvalidRejected ==
    [][\A r \in Reqs :
          /\ ( /\ \E rnd \in Randoms : TypingDone(r, rnd)
               /\ EmptyAfterRemoval(h[r].msg.content)
               /\ ~GateFull )
             => /\ activeProcesses' = activeProcesses
                /\ h'[r].pc = "sending" /\ h'[r].stage = "diag"
                /\ h'[r].processId = NoPid /\ h'[r].child = "none"
                /\ Len(emitted') = 1 /\ emitted'[1].via = "reply"
                /\ Includes(emitted'[1].text, InvalidError)
          /\ h[r].pc = "sending" => h'[r].pc \notin {"sdk", "cli"}]_vars

\* a text of a blank and a dollar sign has been turned down
InvalidRejectedWitness ==
    \E r \in Reqs :
        /\ h[r].pc = "sending" /\ h[r].stage = "diag"
        /\ InvalidEmitted
        /\ activeProcesses = {}

\* the one message of this step is the chat diagnostic of category cat
Diagnostic(cat) == Len(emitted') = 1 /\ emitted'[1].via = "reply" /\ emitted'[1].cat = cat

\* C22: when the invocation of a chat request fails, the diagnostic sent is
\* that of the cause: the timeout diagnostic when the CLI timer fires, the
\* not-found diagnostic when the spawn fails with ENOENT, the process-error
\* diagnostic for any other error event of the child, and the generic one for
\* a non-zero exit.
FailureClassification ==
    [][\A r \in Reqs :
          h[r].kind = "chat" =>
             /\ CliTimeout(r) => Diagnostic("timeout")
             /\ \A e \in SpawnErrors :
                   CliError(r, e) =>
                      IF Includes(e, <<"ENOENT">>) THEN Diagnostic("notfound")
                      ELSE Diagnostic("processerror")
             /\ \A code \in ExitCodes \ {0}, stderr \in Stderrs :
                   CliClose(r, code, <<>>, stderr) => Diagnostic("generic")]_vars

Unhandled == \E k \in DOMAIN emitted : emitted[k] = UnhandledRejection

RawPrompt(r) == IF h'[r].kind = "test" THEN TestPrompt ELSE h[r].msg.content

\* C27: the text a run holds when its invocation starts is what sanitizeInput
\* returns for its message; falling back from the SDK to the CLI keeps that
\* text and the token and leaves the in-flight set as it is; and while the CLI
\* runs, text, token and in-flight set stay the same, with the token in the set
\* for as long as the run is with the SDK or the CLI.
SamePromptSameToken ==
    /\ [](\A r \in Reqs : InFlight(r) => h[r].processId \in activeProcesses)
    /\ [][\A r \in Reqs :
             /\ (~InFlight(r) /\ InFlight(r)')
                   => /\ h'[r].sanitized = sanitizeInput(RawPrompt(r))
                      /\ activeProcesses' = activeProcesses \cup {h'[r].processId}
             /\ (InFlight(r) /\ InFlight(r)')
                   => /\ h'[r].sanitized = h[r].sanitized
                      /\ h'[r].processId = h[r].processId
                      /\ activeProcesses' = activeProcesses]_vars

\* the CLI runs after a failed SDK attempt, holding the one token of the set
SamePromptSameTokenWitness ==
    \E r \in Reqs :
        /\ h[r].pc = "cli" /\ h[r].fellBack
        /\ h[r].sanitized = sanitizeInput(Hi)
        /\ activeProcesses = {h[r].processId}

\* this step answers chat run r with the one message `reply` and gives the
\* token back, the in-flight set being again what it was before the request
AnsweredOnce(r, reply) ==
    /\ emitted' = << Out("reply", "response", reply) >>
    /\ h'[r].pc = "sending" /\ h'[r].queue = <<>>
    /\ h[r].processId \in activeProcesses
    /\ activeProcesses' = activeProcesses \ {h[r].processId}

\* C31: when the SDK returns a non-empty result of at most MAX_LENGTH
\* characters for a chat request, that step sends exactly one message, the
\* result itself, the token leaves the in-flight set, and the cooldown entry of
\* the user is the time of the request plus COOLDOWN_MS.
HappyPath ==
    [][\A r \in Reqs, result \in SdkResults :
          ( /\ h[r].kind = "chat"
            /\ ~Falsy(result) /\ Len(result) <= MAX_LENGTH
            /\ SdkResult(r, result) )
          => /\ AnsweredOnce(r, result)
             /\ \A u \in DOMAIN lastAccepted :
                   /\ u \in DOMAIN userCooldowns'
                   /\ userCooldowns'[u] = lastAccepted[u] + COOLDOWN_MS]_vars

\* C31, amended: when the SDK returns a result that is not blank and has at
\* most MAX_LENGTH characters for a chat request, that step sends exactly one
\* message, the result itself, and the token leaves the in-flight set; the
\* cooldown entry of the user is the time of the request plus COOLDOWN_MS,
\* unless that time has come and a sweep has deleted the entry; and when the
\* send completes nothing more is sent.
HappyPathNotBlank ==
    [][\A r \in Reqs :
          /\ \A result \in SdkResults :
                ( /\ h[r].kind = "chat"
                  /\ ~Blank(result) /\ Len(result) <= MAX_LENGTH
                  /\ SdkResult(r, result) )
                => /\ AnsweredOnce(r, result)
                   /\ \A u \in DOMAIN lastAccepted :
                         \/ /\ u \in DOMAIN userCooldowns'
                            /\ userCooldowns'[u] = lastAccepted[u] + COOLDOWN_MS
                         \/ /\ u \notin DOMAIN userCooldowns'
                            /\ now >= lastAccepted[u] + COOLDOWN_MS
          /\ (Succeeded(r) /\ h[r].queue = <<>> /\ SendDone(r))
                => emitted' = <<>> /\ h'[r].pc = "done"]_vars

\* the SDK's answer to a chat request is being sent, no token is held and the
\* user's cooldown entry stands
HappyPathNotBlankWitness ==
    \E r \in Reqs :
        /\ Succeeded(r) /\ h[r].kind = "chat"
        /\ emitted = << Out("reply", "response", <<"o", "k">>) >>
        /\ claudeQuery = "query" /\ ~h[r].fellBack
        /\ activeProcesses = {}
        /\ \A u \in DOMAIN lastAccepted : userCooldowns[u] = lastAccepted[u] + COOLDOWN_MS

\* C32: a message of a user whose content is exactly the !claude-test command
\* starts the integration test, whatever its channel: the handler announces
\* the test and run r is a test run, which ends with the test-successful or
\* the test-failed message.
TestCommandAnyChannel ==
    [][\A r \in Reqs, m \in Messages :
          (~m.bot /\ m.content = ClaudeTestCmd /\ \E rnd \in Randoms : Handle(r, m, rnd))
          => /\ h'[r].kind = "test"
             /\ emitted' # <<>>
             /\ emitted'[1] = Out("reply", "testing", TestingNotice)]_vars

\* the reply as a chain of four: result, response, the "result" envelope,
\* the raw text; and the raw text for output that is not JSON
ClaimedReply(stdout) ==
    CASE ~stdout.json -> stdout.raw
      [] stdout.json /\ ~Falsy(stdout.result) -> stdout.result
      [] stdout.json /\ Falsy(stdout.result) /\ ~Falsy(stdout.response) -> stdout.response
      [] stdout.json /\ Falsy(stdout.result) /\ Falsy(stdout.response)
            /\ stdout.type = "result" -> NoContentText
      [] OTHER -> stdout.raw

\* the same chain with the error flag: output marked is_error that has neither
\* field is answered with a fixed error text
ExtractedReply(stdout) ==
    CASE ~stdout.json -> stdout.raw
      [] stdout.json /\ ~Falsy(stdout.result) -> stdout.result
      [] stdout.json /\ Falsy(stdout.result) /\ ~Falsy(stdout.response) -> stdout.response
      [] stdout.json /\ Falsy(stdout.result) /\ Falsy(stdout.response)
            /\ stdout.is_error -> CliErrorText
      [] stdout.json /\ Falsy(stdout.result) /\ Falsy(stdout.response)
            /\ ~stdout.is_error /\ stdout.type = "result" -> NoContentText
      [] OTHER -> stdout.raw

\* C33: when the child exits with code 0, what is sent is the reply made of
\* its output by the chain result, response, "result" envelope, raw text, and
\* the raw text when the output is not JSON.
CliReplyChain ==
    [][\A r \in Reqs, stdout \in CliStdouts :
          CliClose(r, 0, stdout, <<>>) => Replied(r, ClaimedReply(stdout))]_vars

\* C33, amended: when the child exits with code 0, what is sent is the reply
\* made of its output by the chain result, response, fixed error text for
\* output marked is_error, fixed no-content text for a "result" envelope, raw
\* text, and the raw text when the output is not JSON.
CliReplyChainWithError ==
    [][\A r \in Reqs, stdout \in CliStdouts :
          CliClose(r, 0, stdout, <<>>) => Replied(r, ExtractedReply(stdout))]_vars

\* output marked is_error has been answered with the fixed error text
CliReplyChainWithErrorWitness ==
    \E r \in Reqs :
        /\ Succeeded(r) /\ h[r].kind = "chat"
        /\ emitted = << Out("reply", "response", CliErrorText) >>

\* C34: a run that is sending its reply, chunk after chunk, or a diagnostic
\* holds no token: the step that ends its invocation takes the token out of
\* the in-flight set in the same step in which the first message goes out, and
\* with one run the set is empty for as long as the run is sending.
TokenFreeWhileSending ==
    /\ [](\A r \in Reqs : h[r].pc = "sending" => activeProcesses = {})
    /\ [][\A r \in Reqs :
             (InFlight(r) /\ ~InFlight(r)')
             => /\ h[r].processId \notin activeProcesses'
                /\ h'[r].pc = "sending"
                /\ emitted' # <<>>]_vars

\* the first of several chunks is being sent and the set is empty
TokenFreeWhileSendingWitness ==
    \E r \in Reqs :
        /\ h[r].pc = "sending" /\ h[r].stage = "resp"
        /\ h[r].queue # <<>>
        /\ activeProcesses = {}

-----------------------------------------------------------------------------
(* Properties of the chat handler's checks, under SpecCooldown *)

\* a chat message that fails the checks of lines 752-758
FailsValidation(m) ==
    /\ ~m.bot
    /\ m.channel = "claude-chat"
    /\ Falsy(m.content) \/ Len(m.content) > MAX_INPUT_LENGTH \/ m.attachments > 0

\* C18: a chat message that is empty, longer than MAX_INPUT_LENGTH or carries
\* an attachment is answered with the notice of its check and nothing else
\* happens: the cooldown map and the in-flight set are unchanged, the other
\* runs are untouched, and the run only waits for its notice to be sent.
ValidationRejection ==
    [][\A r \in Reqs :
          /\ \A m \in CooldownMessages :
                (FailsValidation(m) /\ \E rnd \in Randoms : Handle(r, m, rnd))
                => /\ userCooldowns' = userCooldowns
                   /\ activeProcesses' = activeProcesses
                   /\ \A q \in Reqs \ {r} : h'[q] = h[q]
                   /\ h'[r].pc = "sending" /\ h'[r].stage = "notice"
                   /\ NotInvoked(h'[r])
                   /\ emitted' = << Out("reply",
                         IF Falsy(m.content) \/ Len(m.content) > MAX_INPUT_LENGTH
                         THEN "validation" ELSE "attachments",
                         IF Falsy(m.content) \/ Len(m.content) > MAX_INPUT_LENGTH
                         THEN ValidationNotice ELSE AttachmentNotice) >>
          /\ (h[r].pc = "sending" /\ h[r].stage = "notice" /\ h'[r] # h[r])
                => /\ h'[r].pc = "done" /\ NotInvoked(h'[r])
                   /\ userCooldowns' = userCooldowns
                   /\ activeProcesses' = activeProcesses]_vars

\* an attachment was turned down while the sender was cooling down and another
\* request was in flight
ValidationRejectionWitness ==
    \E r \in Reqs :
        /\ h[r].pc = "sending" /\ h[r].stage = "notice"
        /\ emitted = << Out("reply", "attachments", AttachmentNotice) >>
        /\ "u1" \in DOMAIN userCooldowns
        /\ activeProcesses # {}

\* the sender of m has an entry in the cooldown map that has not expired
StillCooling(m) == m.user \in DOMAIN userCooldowns /\ now < userCooldowns[m.user]

CooldownEmitted == \E k \in DOMAIN emitted : emitted[k].cat = "cooldown"

\* C19: a valid chat message whose sender is still cooling down is answered
\* with the wait notice and nothing else happens: the cooldown map (the sender's
\* entry included), the in-flight set and the other runs are unchanged, and the
\* run holds no token, starts no invocation and only waits for its notice to be
\* sent.
DenialHasNoSideEffects ==
    [][\A r \in Reqs :
          /\ \A m \in CooldownMessages :
                (ValidChat(m) /\ StillCooling(m) /\ \E rnd \in Randoms : Handle(r, m, rnd))
                => /\ userCooldowns' = userCooldowns
                   /\ lastAccepted' = lastAccepted
                   /\ activeProcesses' = activeProcesses
                   /\ \A q \in Reqs \ {r} : h'[q] = h[q]
                   /\ h'[r].pc = "sending" /\ h'[r].stage = "notice"
                   /\ NotInvoked(h'[r])
                   /\ Len(emitted') = 1 /\ emitted'[1].cat = "cooldown"
          /\ (h[r].stage = "notice" /\ h'[r] # h[r])
                => h'[r].pc = "done" /\ NotInvoked(h'[r])]_vars

\* a request was denied some time after the one that was accepted, which is
\* still in flight, and the sender's entry is the one written at acceptance
DenialHasNoSideEffectsWitness ==
    \E r \in Reqs :
        /\ h[r].pc = "sending" /\ h[r].stage = "notice"
        /\ CooldownEmitted
        /\ now > lastAccepted[h[r].msg.user]
        /\ userCooldowns[h[r].msg.user] = lastAccepted[h[r].msg.user] + COOLDOWN_MS
        /\ activeProcesses # {}

\* C20: the number in the wait notice of a denied request is the ceiling of
\* the remaining cooldown in seconds, the least N with N * 1000 at or above
\* the remaining milliseconds; it is 1, 2 or 3, and it is 2 for a request that
\* comes 1000 ms after the accepted one.
WaitSeconds ==
    [][\A r \in Reqs, m \in CooldownMessages :
          (ValidChat(m) /\ StillCooling(m) /\ \E rnd \in Randoms : Handle(r, m, rnd))
          => LET remaining == userCooldowns[m.user] - now
             IN  /\ \E N \in 1..3 :
                       /\ emitted' = << Out("reply", "cooldown", Decimal(N)) >>
                       /\ N * 1000 >= remaining
                       /\ (N - 1) * 1000 < remaining
                 /\ now = lastAccepted[m.user] + 1000
                       => emitted' = << Out("reply", "cooldown", Decimal(2)) >>]_vars

\* a request 1000 ms after the accepted one was told to wait 2 seconds
WaitSecondsWitness ==
    \E r \in Reqs :
        /\ h[r].pc = "sending" /\ h[r].stage = "notice"
        /\ emitted = << Out("reply", "cooldown", Decimal(2)) >>
        /\ now = lastAccepted[h[r].msg.user] + 1000

\* this step takes entries out of the cooldown map and writes none: a sweep
Sweeps ==
    /\ DOMAIN userCooldowns' # DOMAIN userCooldowns
    /\ DOMAIN userCooldowns' \subseteq DOMAIN userCooldowns

\* C25: a sweep removes exactly the entries whose deadline is at or before now:
\* the entries it leaves are those with a later deadline, unchanged, and when
\* every deadline is at or before now it leaves the map empty.
SweepRemovesExpired ==
    [][Sweeps =>
          /\ DOMAIN userCooldowns' = {u \in DOMAIN userCooldowns : userCooldowns[u] > now}
          /\ \A u \in DOMAIN userCooldowns' : userCooldowns'[u] = userCooldowns[u]
          /\ (\A u \in DOMAIN userCooldowns : userCooldowns[u] <= now)
                => DOMAIN userCooldowns' = {}]_vars

\* at the deadline of one user a sweep has removed that user's entry and kept
\* the later one of the other user
SweepRemovesExpiredWitness ==
    \E u, v \in Users :
        /\ u \in DOMAIN lastAccepted /\ u \notin DOMAIN userCooldowns
        /\ now = lastAccepted[u] + COOLDOWN_MS
        /\ v \in DOMAIN userCooldowns /\ userCooldowns[v] > now

\* the entries the cooldown map can hold
CooldownEntries == {<<u, d>> : u \in Users, d \in 0..(MaxNow + COOLDOWN_MS)}

\* C26: every entry of the cooldown map is eventually gone: deleted by a sweep
\* at or after its deadline, unless its user was accepted again and the entry
\* was rewritten before.
EntriesAreSwept ==
    \A e \in {<<u, d>> \in CooldownEntries : d % 1000 \in {0, 999}} :
        (e[1] \in DOMAIN userCooldowns /\ userCooldowns[e[1]] = e[2])
            ~> (e[1] \notin DOMAIN userCooldowns \/ userCooldowns[e[1]] # e[2])

\* an entry written after time 0 has been deleted at or after its deadline
EntriesAreSweptWitness ==
    \E u \in Users :
        /\ u \in DOMAIN lastAccepted /\ u \notin DOMAIN userCooldowns
        /\ lastAccepted[u] > 0
        /\ now >= lastAccepted[u] + COOLDOWN_MS

-----------------------------------------------------------------------------
(* Properties of sendResponse, under SpecChunk *)

\* the text of the k-th of `total` messages without its "(k/total) " marker
Body(k, total, text) == SubSeq(text, Len(ChunkPrefix(k - 1, total)) + 1, Len(text))

RECURSIVE Concat(_)
Concat(texts) == IF texts = <<>> THEN <<>> ELSE Head(texts) \o Concat(Tail(texts))

CeilDiv(a, b) == (a + b - 1) \div b

\* C6: every message sendResponse sends, the "(i/total) " marker of the second
\* and later chunks included, is at most DISCORD_MESSAGE_LIMIT characters long.
ChunksWithinLimit ==
    \A k \in DOMAIN srSent : Len(srSent[k].text) <= DISCORD_MESSAGE_LIMIT

\* C7: once sendResponse has returned for a reply of length L >= 1, it has sent
\* exactly ceil(L / MAX_LENGTH) messages; each begins with its marker (none on
\* the first), the rest of it is at most MAX_LENGTH characters long, and these
\* bodies concatenated in the order sent are the reply; for L <= MAX_LENGTH the
\* one message is the reply itself.
ChunkingRoundTrip ==
    (srPc = "returned" /\ ~Falsy(srResponse)) =>
        LET L == Len(srResponse)
            total == Len(srSent)
            bodies == [k \in 1..total |-> Body(k, total, srSent[k].text)]
        IN  /\ total = CeilDiv(L, MAX_LENGTH)
            /\ \A k \in 1..total :
                  /\ Len(bodies[k]) <= MAX_LENGTH
                  /\ srSent[k].text = ChunkPrefix(k - 1, total) \o bodies[k]
            /\ Concat(bodies) = srResponse
            /\ L <= MAX_LENGTH => total = 1 /\ srSent[1].text = srResponse

\* a reply of three chunks, the last one shorter, has been sent
ChunkingRoundTripWitness ==
    /\ srPc = "returned"
    /\ ~Falsy(srResponse)
    /\ Len(srSent) = 3
    /\ Len(srResponse) % MAX_LENGTH # 0

\* the "(i/total) " marker, i counted from 1
Marker(i, total) == <<"(">> \o Decimal(i) \o <<"/">> \o Decimal(total) \o <<")", " ">>

\* C21: for a reply of more than MAX_LENGTH characters, the messages sent so
\* far are the first segments in order: the first a direct reply with no
\* marker, the i-th (i >= 2) a plain channel message that is the marker
\* "(i/total) " followed by the i-th segment; and a message is only ever added
\* at the end, one at a time, the second and later ones by the step in which
\* the previous send completed.
ChunkOrder ==
    /\ [](Len(ResponseText(srResponse)) > MAX_LENGTH /\ srPc # "idle" =>
            LET text == ResponseText(srResponse)
                total == CeilDiv(Len(text), MAX_LENGTH)
                segment(i) == SubSeq(text, (i - 1) * MAX_LENGTH + 1,
                                     Min(i * MAX_LENGTH, Len(text)))
            IN  /\ Len(srSent) <= total
                /\ \A i \in DOMAIN srSent :
                      IF i = 1
                      THEN srSent[i] = [via |-> "reply", text |-> segment(1)]
                      ELSE srSent[i] = [via |-> "send", text |-> Marker(i, total) \o segment(i)]
                /\ srPc = "returned" => Len(srSent) = total)
    /\ [][srSent' # srSent =>
            /\ Len(srSent') = Len(srSent) + 1
            /\ SubSeq(srSent', 1, Len(srSent)) = srSent
            /\ srSent # <<>> => srSendDone]_vars

\* the second of three segments is being sent
ChunkOrderWitness ==
    /\ srPc = "sending"
    /\ Len(srSent) = 2
    /\ CeilDiv(Len(ResponseText(srResponse)), MAX_LENGTH) = 3
    /\ srSent[2].via = "send"

-----------------------------------------------------------------------------
(* Properties of the sanitizer, under SpecSanitize *)

NoDangerous(text) == \A k \in DOMAIN text : text[k] \notin Dangerous

AcceptedLength ==
    sanPc = "accepted" => Len(sanOutput) >= 1 /\ Len(sanOutput) <= MAX_INPUT_LENGTH

\* an input longer than MAX_INPUT_LENGTH was cut and accepted
AcceptedLengthWitness ==
    /\ sanPc = "accepted"
    /\ Len(sanInput) > MAX_INPUT_LENGTH
    /\ Len(sanOutput) = MAX_INPUT_LENGTH

-----------------------------------------------------------------------------
(* Properties of the tracked-server list, under SpecTrack *)

Tracked(g) == trackedFile # NoFile /\ \E i \in DOMAIN trackedFile : trackedFile[i] = g

NoDuplicates(list) == \A i, j \in DOMAIN list : list[i] = list[j] => i = j

\* C37: the list in the file holds a guild exactly when the last command that
\* wrote the list for that guild was !track, and holds no guild twice; !track
\* in a tracked guild and !untrack in an untracked guild leave the file as it
\* was.
TrackedListFollowsCommands ==
    /\ [](\A g \in Guilds : Tracked(g) <=> lastEffective[g] = "track")
    /\ [](trackedFile # NoFile => NoDuplicates(trackedFile))
    /\ [][\A t \in TrackRuns, m \in TrackMessages, readOk \in BOOLEAN, writeOk \in BOOLEAN :
             /\ (m.guild # NoGuild /\ Tracked(m.guild) /\ track(t, m, readOk, writeOk))
                => trackedFile' = trackedFile
             /\ (m.guild # NoGuild /\ ~Tracked(m.guild) /\ untrack(t, m, readOk, writeOk))
                => trackedFile' = trackedFile]_vars

\* C38: a listener of a guild event writes a snapshot file only for a guild
\* that was in the list file when the listener ran: the listener goes on to
\* saveServerInfoToFile only then, the file it later writes is that guild's,
\* and an event of a guild that is not in the list writes no file, changes no
\* file and no state, and sends nothing (a failed read is logged).
EventsWriteTrackedOnly ==
    [][/\ \A t \in TrackRuns, kind \in EventKinds, guild \in Guilds \cup {NoGuild},
             readOk \in BOOLEAN :
             guildEvent(t, kind, guild, readOk)
             => /\ written' = {}
                /\ UNCHANGED <<trackedFile, snapshots, lastEffective, chatVars>>
                /\ tr'[t].pc = "snapshot" => (Tracked(guild) /\ tr'[t].guild = guild)
                /\ ~Tracked(guild)
                   => /\ tr'[t].pc = "done"
                      /\ \A i \in DOMAIN emitted' : emitted'[i].via = "log"
       /\ \A t \in TrackRuns :
             (tr[t].kind = "event" /\ tr[t].pc = "snapshot" /\ tr'[t].pc = "done")
             => /\ written' \subseteq {tr[t].guild}
                /\ snapshots' = snapshots \cup written'
                /\ UNCHANGED <<trackedFile, lastEffective, chatVars>>]_vars

\* after a !track, an event of a tracked guild has written that guild's snapshot
EventsWriteTrackedOnlyWitness ==
    \E t, u \in TrackRuns, g \in Guilds :
        /\ tr[t].kind = "event" /\ tr[t].pc = "done" /\ tr[t].guild = g
        /\ written = {g} /\ snapshots = {g}
        /\ Tracked(g)
        /\ u < t /\ tr[u].kind = "track"

\* C39: !track sends its confirmation only when its write of the list file
\* succeeded; a run whose write failed sends no confirmation.
TrackConfirmsOnlyIfSaved ==
    [][\A t \in TrackRuns :
          (tr[t].kind = "track" /\ tr[t].pc = "snapshot" /\ tr'[t].pc = "done"
             /\ \E i \in DOMAIN emitted' : emitted'[i].cat = "tracked")
          => tr[t].saved]_vars

====
